---- MODULE Spec2Model ----
(***************************************************************************)
(* Model of document_longcontext_idp.ipynb: a notebook that builds one     *)
(* user turn (instruction text, report PDFs, follow-up question), sends it *)
(* with client.converse / client.converse_stream and prints the streamed   *)
(* events.  The remote endpoint, the HTTP document source and the          *)
(* transport are the environment: their replies are nondeterministic.      *)
(***************************************************************************)
EXTENDS Integers, Sequences, FiniteSets, TLC

VARIABLES
    pc,            \* the notebook cell (or loop) about to run
    messages,      \* messages = [{"role": "user", "content": [...]}]
    ri,            \* position of the `for report_url in reports` loop
    attempts,      \* HTTP attempts made for the client call in progress
    calls,         \* number of client.converse / converse_stream calls started
    wire,          \* what the endpoint received: one entry per HTTP attempt
    fetched,       \* the bodies (pdf_file_object) the report loop has read
    model_response,\* the notebook variable model_response
    content_text,  \* the notebook variable content_text
    events,        \* the events the `for event in stream` loop has consumed
    out,           \* what the streaming cell has printed, in print order
    err            \* the uncaught exception that stopped the run, or NoError

vars == <<pc, messages, ri, attempts, calls, wire, fetched, model_response,
          content_text, events, out, err>>

\* ------------------------------------------------------------------ bounds

\* Longest event stream consumed when the whole notebook is explored.
MaxNotebookEvents == 2

\* Longest event stream consumed when the streaming cell is explored alone.
MaxEvents == 4

\* ------------------------------------------------------- program constants

\* Config(retries={'max_attempts': 1})
max_attempts == 1

\* botocore reads the client Config key 'max_attempts' as the number of
\* retries made after the initial request (the key counting the initial
\* request is 'total_max_attempts'), so a call makes up to max_attempts + 1
\* HTTP attempts.
TotalMaxAttempts == max_attempts + 1

Unset == "<unset>"
NoResponse == [kind |-> "unset"]
NoError == "<none>"

\* instructions = """ ## Task: ... """
instructions == "## Task: Analyze Amazon's financial reports ..."

FollowUpQuestion == "How many employees worked at Amazon at the end of 2023?"

\* reports = [...]: each URL as its "/"-separated segments, each segment as
\* its "."-separated parts.
reports ==
    << << <<"https:">>, <<"">>, <<"s2", "q4cdn", "com">>, <<"299287126">>,
          <<"files">>, <<"doc_financials">>, <<"2025">>, <<"ar">>,
          <<"Amazon-2024-Annual-Report", "pdf">> >>,
       << <<"https:">>, <<"">>, <<"s2", "q4cdn", "com">>, <<"299287126">>,
          <<"files">>, <<"doc_financials">>, <<"2024">>, <<"ar">>,
          <<"Amazon-com-Inc-2023-Annual-Report", "pdf">> >> >>

\* file_name = report_url.split("/")[-1].split('.')[0]
FileName(report_url) == report_url[Len(report_url)][1]

\* ------------------------------------------------------------ environment

\* Bodies the document source may return: nothing, or PDF bytes.
Payloads == { <<>>, <<37, 80, 68, 70>> }

\* requests.get(report_url): a status and a body.
HttpResponses == { [status |-> s, content |-> b] : s \in {200, 404}, b \in Payloads }

\* Errors a client call may end with, by who raises them.
TransportErrors == {"ConnectionError", "ReadTimeoutError"}
ProviderErrors == {"ThrottlingException", "ValidationException"}
\* What botocore's retry handler retries.
Retryable == {"ConnectionError", "ReadTimeoutError", "ThrottlingException"}

\* model_response["output"]["message"]["content"] of a converse reply.
ResponseContents ==
    { <<>>,
      << [text |-> "Hello"] >>,
      << [text |-> "Hi"], [text |-> "there"] >>,
      << [toolUse |-> "t1"] >>,
      << [toolUse |-> "t1"], [text |-> "Hello"] >> }

ConverseReplies ==
    { [kind |-> "error", code |-> c] : c \in TransportErrors \cup ProviderErrors }
    \cup { [kind |-> "ok", content |-> c] : c \in ResponseContents }

ConverseStreamReplies ==
    { [kind |-> "error", code |-> c] : c \in TransportErrors \cup ProviderErrors }
    \cup { [kind |-> "ok", stream |-> s] : s \in BOOLEAN }

\* The events of a ConverseStream response: each a dict with one key.
Usage == [inputTokens |-> 7, outputTokens |-> 2, totalTokens |-> 9]
Metrics == [latencyMs |-> 5]
MetadataEvents ==
    { [metadata |-> [usage |-> Usage, metrics |-> Metrics]],
      [metadata |-> [metrics |-> Metrics]],
      [metadata |-> [other |-> 0]] }
StreamEvents ==
    { [messageStart |-> [role |-> "assistant"]] }
    \cup { [contentBlockDelta |-> [delta |-> [text |-> t]]] : t \in {"Hel", "lo"} }
    \cup { [messageStop |-> [stopReason |-> r]] : r \in {"end_turn", "max_tokens"} }
    \cup MetadataEvents
    \cup { [contentBlockStop |-> [contentBlockIndex |-> 0]] }

\* --------------------------------------------------------------- helpers

\* key in dict
Has(d, key) == key \in DOMAIN d

IsPrefix(s, t) == Len(s) <= Len(t) /\ SubSeq(t, 1, Len(s)) = s

\* The block put first instead of last.
AppendContentFront(msgs, block) ==
    [msgs EXCEPT ![1].content = << block >> \o @]

\* messages[0]['content'].append(block)
AppendContent(msgs, block) ==
    [msgs EXCEPT ![1].content = Append(@, block)]

\* The reply written into the conversation as an assistant turn.
AfterReplyRecorded(msgs, reply) ==
    IF reply.kind = "ok"
    THEN Append(msgs, [role |-> "assistant", content |-> <<>>])
    ELSE msgs

\* The notebook never writes a reply into messages.
AfterReply(msgs, reply) == msgs

\* The document block with the last byte of the body lost.
DocumentBlockTruncated(file_name, pdf_file_object) ==
    [document |-> [name |-> file_name, format |-> "pdf",
                   source |-> [bytes |-> SubSeq(pdf_file_object, 1,
                                                Len(pdf_file_object) - 1)]]]

\* { "document": { "name": ..., "format": "pdf", "source": { "bytes": ... } } }
DocumentBlock(file_name, pdf_file_object) ==
    [document |-> [name |-> file_name, format |-> "pdf",
                   source |-> [bytes |-> pdf_file_object]]]

\* The extraction with an empty text for a reply without a first text block.
ExtractTextOrEmpty(response) ==
    IF Len(response.content) = 0 \/ ~Has(response.content[1], "text")
    THEN [text |-> ""]
    ELSE [text |-> response.content[1].text]

\* model_response["output"]["message"]["content"][0]["text"]: the text, or
\* the exception the subscripts raise.
ExtractText(response) ==
    IF Len(response.content) = 0 THEN [raised |-> "IndexError"]
    ELSE IF ~Has(response.content[1], "text") THEN [raised |-> "KeyError"]
    ELSE [text |-> response.content[1].text]

\* The loop body with every delta printed twice.
PrintedForTwice(event) ==
    IF Has(event, "contentBlockDelta")
    THEN << [label |-> "", val |-> event.contentBlockDelta.delta.text],
            [label |-> "", val |-> event.contentBlockDelta.delta.text] >>
    ELSE IF Has(event, "messageStart")
    THEN << [label |-> "Role: ", val |-> event.messageStart.role] >>
    ELSE IF Has(event, "messageStop")
    THEN << [label |-> "Stop reason: ", val |-> event.messageStop.stopReason] >>
    ELSE <<>>

\* What one pass of the `for event in stream` body prints for an event: the
\* four `if '<key>' in event` blocks, in order.
PrintedFor(event) ==
    (IF Has(event, "messageStart")
        THEN << [label |-> "Role: ", val |-> event.messageStart.role] >>
        ELSE <<>>)
    \o (IF Has(event, "contentBlockDelta")
        THEN << [label |-> "", val |-> event.contentBlockDelta.delta.text] >>
        ELSE <<>>)
    \o (IF Has(event, "messageStop")
        THEN << [label |-> "Stop reason: ", val |-> event.messageStop.stopReason] >>
        ELSE <<>>)
    \o (IF Has(event, "metadata")
        THEN (IF Has(event.metadata, "usage")
                THEN << [label |-> "Token usage", val |-> ""],
                        [label |-> "Input tokens: ",
                         num |-> event.metadata.usage.inputTokens],
                        [label |-> ":Output tokens: ",
                         num |-> event.metadata.usage.outputTokens],
                        [label |-> ":Total tokens: ",
                         num |-> event.metadata.usage.totalTokens] >>
                ELSE <<>>)
             \o (IF Has(event.metadata, "metrics")
                THEN << [label |-> "Latency: ",
                         num |-> event.metadata.metrics.latencyMs] >>
                ELSE <<>>)
        ELSE <<>>)

\* ------------------------------------------------------- reading the state

content == messages[1].content

IsStart(event) == Has(event, "messageStart")
IsDelta(event) == Has(event, "contentBlockDelta")
IsStop(event) == Has(event, "messageStop")
IsMeta(event) == Has(event, "metadata")

\* The delta texts, and the stop reasons, an event sequence carries.
DeltaTexts(evs) ==
    LET ds == SelectSeq(evs, IsDelta)
    IN [k \in 1..Len(ds) |-> ds[k].contentBlockDelta.delta.text]
StopReasons(evs) ==
    LET ss == SelectSeq(evs, IsStop)
    IN [k \in 1..Len(ss) |-> ss[k].messageStop.stopReason]

\* Printed items by what they are.
IsTextItem(item) == item.label = ""
IsRoleItem(item) == item.label = "Role: "
IsStopItem(item) == item.label = "Stop reason: "
IsMetaItem(item) == ~IsTextItem(item) /\ ~IsRoleItem(item) /\ ~IsStopItem(item)

EmittedTexts(o) ==
    LET ts == SelectSeq(o, IsTextItem) IN [k \in 1..Len(ts) |-> ts[k].val]
EmittedStops(o) ==
    LET ss == SelectSeq(o, IsStopItem) IN [k \in 1..Len(ss) |-> ss[k].val]

\* The whole loop run over an event sequence: everything it prints.
RECURSIVE RunAll(_)
RunAll(evs) ==
    IF evs = <<>> THEN <<>>
    ELSE RunAll(SubSeq(evs, 1, Len(evs) - 1)) \o PrintedFor(evs[Len(evs)])

\* evs with its i-th event taken out and put back as the j-th.
Move(evs, i, j) ==
    LET rest == SubSeq(evs, 1, i - 1) \o SubSeq(evs, i + 1, Len(evs))
    IN SubSeq(rest, 1, j - 1) \o << evs[i] >> \o SubSeq(rest, j, Len(rest))

\* How many times item x was printed.
Count(o, x) == Cardinality({k \in DOMAIN o : o[k] = x})

\* ------------------------------------------------------------------ Init

\* messages = [{"role": "user", "content": []}]
Init ==
    /\ pc = "query"
    /\ messages = << [role |-> "user", content |-> <<>>] >>
    /\ ri = 1
    /\ attempts = 0
    /\ calls = 0
    /\ wire = <<>>
    /\ fetched = <<>>
    /\ model_response = NoResponse
    /\ content_text = Unset
    /\ events = <<>>
    /\ out = <<>>
    /\ err = NoError

\* query = {"text": instructions}; messages[0]['content'].append(query)
AppendInstructions ==
    /\ pc = "query" /\ err = NoError
    /\ messages' = AppendContent(messages, [text |-> instructions])
    /\ pc' = "reports"
    /\ UNCHANGED <<ri, attempts, calls, wire, fetched, model_response,
                   content_text, events, out, err>>

\* What a pass of the report loop may raise: requests.get itself, or
\* raise_for_status on a 4xx/5xx reply.
DownloadErrors == {"requests.ConnectionError", "HTTPError"}

\* One pass of `for report_url in reports`: fetch, raise_for_status, append.
DownloadReport ==
    /\ pc = "reports" /\ err = NoError
    /\ ri <= Len(reports)
    /\ \/ /\ err' = "requests.ConnectionError"
          /\ UNCHANGED <<pc, messages, ri, fetched>>
       \/ \E response \in HttpResponses :
            IF response.status >= 400
            THEN /\ err' = "HTTPError"
                 /\ UNCHANGED <<pc, messages, ri, fetched>>
            ELSE /\ fetched' = Append(fetched, response.content)
                 /\ messages' = AppendContent(messages,
                                    DocumentBlock(FileName(reports[ri]), response.content))
                 /\ ri' = ri + 1
                 /\ pc' = IF ri = Len(reports) THEN "converse" ELSE "reports"
                 /\ err' = NoError
    /\ UNCHANGED <<attempts, calls, wire, model_response, content_text, events, out>>

\* One HTTP attempt of a client call: the request goes on the wire.
SendAttempt ==
    /\ calls' = IF attempts = 0 THEN calls + 1 ELSE calls
    /\ wire' = Append(wire, [call |-> calls', messages |-> messages])

\* An attempt that ended with an error: botocore retries it while attempts
\* remain and the error is retryable, else the exception reaches the cell.
AttemptFailed(code) ==
    IF code \in Retryable /\ attempts + 1 < TotalMaxAttempts
    THEN /\ attempts' = attempts + 1
         /\ UNCHANGED <<pc, err>>
    ELSE /\ attempts' = 0
         /\ err' = code
         /\ UNCHANGED pc

\* model_response = client.converse(...); content_text = ...[0]["text"]
ConverseCell(cell, next) ==
    /\ pc = cell /\ err = NoError
    /\ \E reply \in ConverseReplies :
         /\ SendAttempt
         /\ messages' = AfterReply(messages, reply)
         /\ IF reply.kind = "error"
            THEN /\ AttemptFailed(reply.code)
                 /\ UNCHANGED <<model_response, content_text>>
            ELSE /\ model_response' = reply
                 /\ attempts' = 0
                 /\ IF Has(ExtractText(reply), "raised")
                    THEN /\ err' = ExtractText(reply).raised
                         /\ UNCHANGED <<pc, content_text>>
                    ELSE /\ content_text' = ExtractText(reply).text
                         /\ pc' = next
                         /\ err' = NoError
    /\ UNCHANGED <<ri, fetched, events, out>>

Converse == ConverseCell("converse", "converse_stream")

Converse2 == ConverseCell("converse2", "done")

\* model_response = client.converse_stream(...); stream = model_response.get('stream')
ConverseStream ==
    /\ pc = "converse_stream" /\ err = NoError
    /\ \E reply \in ConverseStreamReplies :
         /\ SendAttempt
         /\ messages' = AfterReply(messages, reply)
         /\ IF reply.kind = "error"
            THEN /\ AttemptFailed(reply.code)
                 /\ UNCHANGED model_response
            ELSE /\ model_response' = reply
                 /\ attempts' = 0
                 /\ pc' = IF reply.stream THEN "stream" ELSE "followup"
                 /\ err' = NoError
    /\ UNCHANGED <<ri, fetched, content_text, events, out>>

\* The loop with printing switched off once a messageStop was consumed.
ConsumeEventQuietAfterStop(bound) ==
    /\ pc = "stream" /\ err = NoError
    /\ Len(events) < bound
    /\ \E event \in StreamEvents :
         /\ events' = Append(events, event)
         /\ out' = IF StopReasons(events) # <<>> THEN out ELSE out \o PrintedFor(event)
    /\ UNCHANGED <<pc, messages, ri, attempts, calls, wire, fetched,
                   model_response, content_text, err>>

\* The loop with deltas printed only once a messageStart was consumed.
ConsumeEventGated(bound) ==
    /\ pc = "stream" /\ err = NoError
    /\ Len(events) < bound
    /\ \E event \in StreamEvents :
         /\ events' = Append(events, event)
         /\ out' = IF IsDelta(event) /\ SelectSeq(events, IsStart) = <<>>
                   THEN out ELSE out \o PrintedFor(event)
    /\ UNCHANGED <<pc, messages, ri, attempts, calls, wire, fetched,
                   model_response, content_text, err>>

\* One pass of `for event in stream`: the next event arrives and is printed.
ConsumeEvent(bound) ==
    /\ pc = "stream" /\ err = NoError
    /\ Len(events) < bound
    /\ \E event \in StreamEvents :
         /\ events' = Append(events, event)
         /\ out' = out \o PrintedFor(event)
    /\ UNCHANGED <<pc, messages, ri, attempts, calls, wire, fetched,
                   model_response, content_text, err>>

\* The end of the loop with a check that a messageStop was consumed.
StreamEndChecked ==
    /\ pc = "stream" /\ err = NoError
    /\ IF StopReasons(events) = <<>>
       THEN err' = "TransportError" /\ UNCHANGED pc
       ELSE pc' = "followup" /\ UNCHANGED err
    /\ UNCHANGED <<messages, ri, attempts, calls, wire, fetched, model_response,
                   content_text, events, out>>

\* The iterator is exhausted: the loop, and the cell, end.
StreamEnd ==
    /\ pc = "stream" /\ err = NoError
    /\ pc' = "followup"
    /\ UNCHANGED <<messages, ri, attempts, calls, wire, fetched, model_response,
                   content_text, events, out, err>>

\* Errors the stream iterator may raise while the loop waits for an event.
StreamErrors == TransportErrors \cup {"ModelStreamErrorException"}

\* The iterator raising with the output so far thrown away.
StreamErrorDiscards ==
    /\ pc = "stream" /\ err = NoError
    /\ \E e \in StreamErrors : err' = e
    /\ out' = <<>>
    /\ UNCHANGED <<pc, messages, ri, attempts, calls, wire, fetched,
                   model_response, content_text, events>>

\* The iterator raises: the exception leaves the loop uncaught.
StreamError ==
    /\ pc = "stream" /\ err = NoError
    /\ \E e \in StreamErrors : err' = e
    /\ UNCHANGED <<pc, messages, ri, attempts, calls, wire, fetched,
                   model_response, content_text, events, out>>

\* query = {"text": "How many employees ..."}; messages[0]['content'].append(query)
AppendFollowUp ==
    /\ pc = "followup" /\ err = NoError
    /\ messages' = AppendContent(messages, [text |-> FollowUpQuestion])
    /\ pc' = "converse2"
    /\ UNCHANGED <<ri, attempts, calls, wire, fetched, model_response,
                   content_text, events, out, err>>

\* The notebook, cell by cell.
Next ==
    \/ AppendInstructions
    \/ DownloadReport
    \/ Converse
    \/ ConverseStream
    \/ ConsumeEvent(MaxNotebookEvents)
    \/ StreamEnd
    \/ StreamError
    \/ AppendFollowUp
    \/ Converse2

Spec == Init /\ [][Next]_vars

\* ------------------------------------------------ the streaming cell alone

\* The turn once the instruction and both reports are appended.
BuiltMessages ==
    << [role |-> "user",
        content |-> << [text |-> instructions],
                       DocumentBlock(FileName(reports[1]), <<37, 80, 68, 70>>),
                       DocumentBlock(FileName(reports[2]), <<37, 80, 68, 70>>) >>] >>

\* The notebook as the `for event in stream` loop starts: both reports
\* fetched, the first converse answered "Hello", converse_stream answered
\* with a stream, each on its first attempt.
InitStream ==
    /\ pc = "stream"
    /\ messages = BuiltMessages
    /\ ri = Len(reports) + 1
    /\ attempts = 0
    /\ calls = 2
    /\ wire = << [call |-> 1, messages |-> BuiltMessages],
                 [call |-> 2, messages |-> BuiltMessages] >>
    /\ fetched = << <<37, 80, 68, 70>>, <<37, 80, 68, 70>> >>
    /\ model_response = [kind |-> "ok", stream |-> TRUE]
    /\ content_text = "Hello"
    /\ events = <<>>
    /\ out = <<>>
    /\ err = NoError

NextStream ==
    \/ ConsumeEvent(MaxEvents)
    \/ StreamEnd
    \/ StreamError

SpecStream == InitStream /\ [][NextStream]_vars

\* --------------------------------------------------------------- claims

\* C1: the loop prints the text of every ContentDelta exactly once and in
\* arrival order (the printed texts are the stream's delta texts, none
\* skipped, repeated or reordered), and the stop reasons printed are those
\* the MessageStop events carry.
C1_DeltasInArrivalOrder ==
    /\ EmittedTexts(out) = DeltaTexts(events)
    /\ EmittedStops(out) = StopReasons(events)

\* The stream MessageStart, "Hel", "lo", MessageStop(end_turn), consumed to
\* its end.
C1_Witness ==
    /\ pc = "followup"
    /\ events = << [messageStart |-> [role |-> "assistant"]],
                   [contentBlockDelta |-> [delta |-> [text |-> "Hel"]]],
                   [contentBlockDelta |-> [delta |-> [text |-> "lo"]]],
                   [messageStop |-> [stopReason |-> "end_turn"]] >>
    /\ EmittedTexts(out) = <<"Hel", "lo">>
    /\ EmittedStops(out) = <<"end_turn">>

\* C3 as stated: a stream that ends before any MessageStop ends in an error,
\* so the loop completes normally only when a MessageStop was consumed.
C3_EndWithoutStopFails ==
    (pc = "followup" /\ err = NoError) => StopReasons(events) # <<>>

\* C3 as the code has it: the end of the stream ends the loop normally
\* whether or not a MessageStop was consumed (no error is raised and no stop
\* reason is printed for it); the only errors of the loop are those the
\* stream iterator raises.
C3_EndWithoutStopIsNormal ==
    /\ err # NoError => (pc = "stream" /\ err \in StreamErrors)
    /\ pc = "followup" => err = NoError
    /\ StopReasons(events) = <<>> => EmittedStops(out) = <<>>

\* A stream with a delta and no MessageStop, consumed to its end.
C3_Witness ==
    /\ pc = "followup" /\ err = NoError
    /\ StopReasons(events) = <<>>
    /\ DeltaTexts(events) = <<"Hel">>
    /\ EmittedTexts(out) = <<"Hel">>

\* C5: a Metadata event may come before or after MessageStop. Moving a
\* Metadata event of the consumed stream to any other position leaves the
\* printed role, texts and stop reasons as they are, and what is printed for
\* the Metadata events (usage, latency) is printed as often in either order.
C5_MetadataEitherSide ==
    \A i \in DOMAIN events :
        IsMeta(events[i]) =>
            \A j \in DOMAIN events :
                LET moved == RunAll(Move(events, i, j))
                IN /\ Len(out) = Len(moved)
                   /\ \A k \in DOMAIN moved : Count(out, moved[k]) = Count(moved, moved[k])
                   /\ SelectSeq(out, LAMBDA x : ~IsMetaItem(x))
                        = SelectSeq(moved, LAMBDA x : ~IsMetaItem(x))

\* A stream whose Metadata (with usage and latency) followed MessageStop, and
\* one whose Metadata lacked usage, both consumed to the end.
C5_Witness ==
    /\ pc = "followup" /\ err = NoError
    /\ \E i, j \in DOMAIN events :
        /\ i < j
        /\ IsStop(events[i])
        /\ IsMeta(events[j]) /\ Has(events[j].metadata, "usage")
    /\ \E i \in DOMAIN events : IsMeta(events[i]) /\ ~Has(events[i].metadata, "usage")
    /\ Count(out, [label |-> "Token usage", val |-> ""]) = 1
    /\ DeltaTexts(events) # <<>>

\* C7: when the stream iterator raises, everything printed for the events
\* consumed so far is still there, nothing dropped or taken back, next to
\* the error.
C7_PartialOutputKept ==
    err # NoError =>
        /\ err \in StreamErrors
        /\ out = RunAll(events)
        /\ EmittedTexts(out) = DeltaTexts(events)

\* The iterator raised after "Hel" was printed.
C7_Witness ==
    /\ err \in StreamErrors
    /\ DeltaTexts(events) = <<"Hel">>
    /\ EmittedTexts(out) = <<"Hel">>

\* A role was printed before the k-th printed item.
RoleBefore(o, k) == \E h \in 1..(k - 1) : IsRoleItem(o[h])
\* A stop reason was printed before the k-th printed item.
StopBefore(o, k) == \E h \in 1..(k - 1) : IsStopItem(o[h])

\* Text only after a role; no text or role after a stop reason.
PhaseOrdered(o) ==
    \A k \in DOMAIN o :
        /\ IsTextItem(o[k]) => RoleBefore(o, k)
        /\ (IsTextItem(o[k]) \/ IsRoleItem(o[k])) => ~StopBefore(o, k)

\* C10 as stated: for every event sequence, text is printed only after a
\* MessageStart was consumed, and nothing but metadata after a MessageStop.
C10_ForwardOnly == PhaseOrdered(out)

\* The provider's stream is itself ordered: a MessageStart before any
\* ContentDelta, and no ContentDelta or MessageStart after a MessageStop.
OrderedStream(evs) ==
    \A k \in DOMAIN evs :
        /\ IsDelta(evs[k]) => \E h \in 1..(k - 1) : IsStart(evs[h])
        /\ (IsDelta(evs[k]) \/ IsStart(evs[k])) => ~\E h \in 1..(k - 1) : IsStop(evs[h])

\* C10 as the code has it: the loop keeps no phase. Every MessageStart and
\* every ContentDelta is printed whatever was consumed before it (also
\* before any MessageStart, also after a MessageStop); the printed output
\* goes forward role, text, stop reason exactly when the provider's stream
\* is ordered that way.
C10_OrderIsTheStreams ==
    /\ Len(SelectSeq(out, IsRoleItem)) = Len(SelectSeq(events, IsStart))
    /\ Len(SelectSeq(out, IsTextItem)) = Len(SelectSeq(events, IsDelta))
    /\ OrderedStream(events) <=> PhaseOrdered(out)

\* A delta printed with no MessageStart consumed, and a delta printed after
\* a MessageStop.
C10_Witness ==
    /\ pc = "followup"
    /\ events = << [contentBlockDelta |-> [delta |-> [text |-> "Hel"]]],
                   [messageStop |-> [stopReason |-> "end_turn"]],
                   [contentBlockDelta |-> [delta |-> [text |-> "lo"]]] >>
    /\ EmittedTexts(out) = <<"Hel", "lo">>

\* The turn's content as the cells run so far should have built it: the
\* instruction, one document per report read, in the order of `reports`,
\* then the follow-up question.
ExpectedContent ==
    (IF pc = "query" THEN <<>> ELSE << [text |-> instructions] >>)
    \o [i \in 1..Len(fetched) |-> DocumentBlock(FileName(reports[i]), fetched[i])]
    \o (IF pc \in {"converse2", "done"} THEN << [text |-> FollowUpQuestion] >> ELSE <<>>)

\* C2: the turn's content is the appended blocks in call order: each append
\* puts its block last and leaves the earlier blocks where they were.
C2_ContentInCallOrder ==
    /\ Len(messages) = 1
    /\ messages[1].role = "user"
    /\ content = ExpectedContent

\* The notebook run to its end: instruction, both reports, follow-up.
C2_Witness ==
    /\ pc = "done"
    /\ Len(content) = 4
    /\ content[1] = [text |-> instructions]
    /\ content[2].document.name = "Amazon-2024-Annual-Report"
    /\ content[3].document.name = "Amazon-com-Inc-2023-Annual-Report"
    /\ content[4] = [text |-> FollowUpQuestion]

\* A converse reply without a first text block.
Malformed(response) ==
    \/ Len(response.content) = 0
    \/ ~Has(response.content[1], "text")

\* The exceptions the extraction raises for a malformed reply.
MalformedResponseErrors == {"IndexError", "KeyError"}

\* C4: a converse cell that ran to its end holds in content_text the text of
\* the reply's first content block; a reply with no content block, or whose
\* first block is not text, ends the cell with an exception, content_text is
\* not assigned (never an empty or default text).
C4_FirstTextOrError ==
    /\ (pc \in {"converse_stream", "done"}) =>
          /\ ~Malformed(model_response)
          /\ content_text = model_response.content[1].text
    /\ (err \in MalformedResponseErrors) =>
          /\ pc \in {"converse", "converse2"}
          /\ Malformed(model_response)
          /\ (Len(model_response.content) = 0 <=> err = "IndexError")
          /\ pc = "converse" => content_text = Unset
    /\ content_text # ""

\* The follow-up converse answered with a non-text first block, after the
\* first converse answered "Hello".
C4_Witness ==
    /\ pc = "converse2"
    /\ err = "KeyError"
    /\ model_response.content = << [toolUse |-> "t1"], [text |-> "Hello"] >>
    /\ content_text = "Hello"

\* C6: each client call reaches the endpoint at most once.
C6_SentAtMostOnce ==
    \A i, j \in DOMAIN wire : wire[i].call = wire[j].call => i = j

\* The document blocks of the turn, in order.
DocumentBlocks == SelectSeq(content, LAMBDA b : Has(b, "document"))

\* C8 as stated: a document with empty bytes is refused and never becomes
\* part of the turn.
C8_EmptyBytesRefused ==
    \A k \in DOMAIN DocumentBlocks : DocumentBlocks[k].document.source.bytes # <<>>

\* C8 as the code has it: the report loop appends whatever body the download
\* returned, an empty one too, with no check of its own; the bytes held by
\* the appended block are the bytes supplied, and the format is pdf.
C8_BytesStoredAsSupplied ==
    /\ Len(DocumentBlocks) = Len(fetched)
    /\ \A k \in DOMAIN fetched :
          /\ DocumentBlocks[k].document.source.bytes = fetched[k]
          /\ DocumentBlocks[k].document.format = "pdf"
    /\ err \in DownloadErrors <=> (pc = "reports" /\ err # NoError)

\* Both reports read, the first with an empty body, the second with PDF
\* bytes; both are in the turn.
C8_Witness ==
    /\ pc = "converse" /\ err = NoError
    /\ fetched = << <<>>, <<37, 80, 68, 70>> >>
    /\ content[2].document.source.bytes = <<>>
    /\ content[3].document.source.bytes = <<37, 80, 68, 70>>

\* No append has run since the last request went out.
NoAppendSinceSend ==
    /\ calls > 0
    /\ pc = "converse2" => (attempts > 0 \/ err # NoError)

\* C9: a request and its reply leave the turn as it was (the reply is not
\* written into it), so what a later request sends has what every earlier
\* request sent as a prefix, under the same role.
C9_TurnReadOnlyInRequests ==
    /\ \A i, j \in DOMAIN wire :
          i <= j =>
            /\ Len(wire[i].messages) = 1 /\ Len(wire[j].messages) = 1
            /\ wire[i].messages[1].role = wire[j].messages[1].role
            /\ IsPrefix(wire[i].messages[1].content, wire[j].messages[1].content)
    /\ NoAppendSinceSend => messages = wire[Len(wire)].messages

\* The follow-up request sent the first request's content plus the question.
C9_Witness ==
    /\ pc = "done"
    /\ \E i, j \in DOMAIN wire :
          /\ wire[i].call = 1 /\ wire[j].call = 3
          /\ Len(wire[j].messages[1].content) = Len(wire[i].messages[1].content) + 1
    /\ messages = wire[Len(wire)].messages
    /\ events # <<>>

====
